---- MODULE Spec2Model ----
(***************************************************************************)
(* Model of the fixed-capacity, open-addressing hash map of                *)
(* src/src/hashmap/hashmap.c (linear probing, FNV-1a hashing, memcmp key   *)
(* equality, deletion by resetting the slot's key pointer to NULL).        *)
(*                                                                         *)
(* A key is a byte sequence; key_size is passed beside it as in the C API. *)
(* A stored key is the malloc'ed block the slot points to: its first        *)
(* key_size bytes are the memcpy'ed key, the bytes after them are whatever  *)
(* the allocator left there (indeterminate, chosen when the block is       *)
(* allocated).  memcmp(stored, key, key_size) reads those bytes when the   *)
(* looked-up key is longer than the stored one.                            *)
(***************************************************************************)
EXTENDS Integers, Sequences, FiniteSets, TLC

\* ------------------------------------------------------------------ bounds

\* Largest capacity handed to hashmap_init.
MaxCap == 3

\* The value pointers the callers pass.  The map stores and returns them and
\* never dereferences them: two distinguishable ones tell a latest value from
\* an earlier one.  NULL is 0.
Values == {1, 2}

\* The keys the callers use (key_size >= 1).  <<1>>, <<2>> and <<1, 2>> all
\* hash to slot 1 of a 3-slot table; <<1>> is a proper prefix of <<1, 2>>.
KeySet == {<<1>>, <<2>>, <<1, 2>>, <<2, 2>>}

\* Byte values an uninitialised heap byte behind a stored key may hold: the
\* bytes a longer key of KeySet holds behind its first byte, and one other.
HeapBytes == {0} \cup UNION {{k[i] : i \in 2..Len(k)} : k \in KeySet}

\* Bytes of a key block the model can read: the longest key_size in use.
BlockLen == CHOOSE n \in {Len(k) : k \in KeySet} : \A k \in KeySet : Len(k) <= n

NULL == 0

\* A NULL key pointer (a block is never the empty sequence: BlockLen >= 1).
NULLKEY == <<>>

\* Content of a field that was never written (malloc'ed, not initialised).
\* Such a field is never read while the slot's key pointer is NULL.
UNINIT == -1

\* ------------------------------------------------------------------ hashing

\* uint32_t arithmetic on 16-bit halves: h = hi * 2^16 + lo.
Half == 65536

\* 2166136261 = 0x811C9DC5
FNV_OFFSET_HI == 33052
FNV_OFFSET_LO == 40389

\* 16777619 = 0x01000193 = 2^24 + 403
FNV_PRIME_LOW == 403
FNV_PRIME_SHIFT == 24

RECURSIVE Pow2(_)
Pow2(n) == IF n = 0 THEN 1 ELSE 2 * Pow2(n - 1)

\* Bitwise exclusive or of two naturals.
RECURSIVE BitXor(_, _)
BitXor(a, b) ==
    IF a = 0 THEN b
    ELSE IF b = 0 THEN a
    ELSE (((a % 2) + (b % 2)) % 2) + (2 * BitXor(a \div 2, b \div 2))

\* hash ^= data[i]  (data[i] is a uint8_t: only the low half changes)
XorByte(h, byte) == [hi |-> h.hi, lo |-> BitXor(h.lo, byte)]

\* hash *= 16777619u  (mod 2^32)
\*   h * (2^24 + 403) = (h * 2^24) + h * 403; h * 2^24 mod 2^32 keeps the low
\*   8 bits of h, moved to the top 8 bits.
MulPrime(h) ==
    LET lowprod == h.lo * FNV_PRIME_LOW
        shifted == (h.lo % Pow2(32 - FNV_PRIME_SHIFT)) * Pow2(FNV_PRIME_SHIFT - 16)
    IN  [hi |-> ((h.hi * FNV_PRIME_LOW) + (lowprod \div Half) + shifted) % Half,
         lo |-> lowprod % Half]

\* The loop of fnv1a with its two statements exchanged (FNV-1: multiply, then
\* exclusive or).
RECURSIVE fnv1_from(_, _, _, _)
fnv1_from(hash, data, i, len) ==
    IF i > len THEN hash
    ELSE fnv1_from(XorByte(MulPrime(hash), data[i]), data, i + 1, len)

RECURSIVE fnv1a_from(_, _, _, _)
fnv1a_from(hash, data, i, len) ==
    IF i > len THEN hash
    ELSE fnv1a_from(MulPrime(XorByte(hash, data[i])), data, i + 1, len)

fnv1a(key, len) ==
    fnv1a_from([hi |-> FNV_OFFSET_HI, lo |-> FNV_OFFSET_LO], key, 1, len)

hash_key(key, key_size) == fnv1a(key, key_size)

\* The hashes of the keys in use, computed once.
FnvMemo == [k \in KeySet |-> hash_key(k, Len(k))]

\* map->hash_function, set to hash_key by hashmap_init.
hash_function(key, key_size) ==
    IF key \in KeySet /\ key_size = Len(key) THEN FnvMemo[key]
    ELSE hash_key(key, key_size)

\* hash % capacity for a hash held as two halves.
HashMod(h, capacity) ==
    (((h.hi % capacity) * (Half % capacity)) + h.lo) % capacity

\* ------------------------------------------------------------------ equality

\* memcmp(a, b, key_size) == 0: a is a stored block, b the caller's key.
key_equals(a, b, key_size) == \A i \in 1..key_size : a[i] = b[i]

\* map->equals, set to key_equals by hashmap_init.
equals(a, b, key_size) == key_equals(a, b, key_size)

\* ------------------------------------------------------------------ the map

\* HashMap_Entry: key.key (a block, or NULLKEY), key.key_size, value.
Entry(key, key_size, value) ==
    [key |-> key, key_size |-> key_size, value |-> value]

\* The block malloc(key_size) returns after memcpy(block, key, key_size):
\* the key's bytes, then the bytes the allocator left (slack).
KeyBlock(key, key_size, slack) ==
    [i \in 1..BlockLen |-> IF i <= key_size THEN key[i] ELSE slack[i - key_size]]

\* The contents a fresh block may have beyond its first key_size bytes.
SlackOf(key_size) == [1..(BlockLen - key_size) -> HeapBytes]

\* hashmap_init: capacity stored, size 0, every key pointer NULL; key_size
\* and value of the slots are left unwritten.
hashmap_init(capacity) ==
    [capacity |-> capacity,
     size     |-> 0,
     table    |-> [i \in 0..(capacity - 1) |-> Entry(NULLKEY, UNINIT, UNINIT)]]

\* The while loop of insert, entered at `index` with n slots examined so
\* far.  "loop": every slot is occupied and none holds the key, so the loop
\* walks round the table for ever.
RECURSIVE insert_loop(_, _, _, _, _)
insert_loop(map, key, key_size, index, n) ==
    IF map.table[index].key = NULLKEY
        THEN [kind |-> "empty", index |-> index, examined |-> n + 1]
    ELSE IF equals(map.table[index].key, key, key_size)
        THEN [kind |-> "match", index |-> index, examined |-> n + 1]
    ELSE IF n + 1 >= map.capacity
        THEN [kind |-> "loop", index |-> index, examined |-> n + 1]
    ELSE insert_loop(map, key, key_size, (index + 1) % map.capacity, n + 1)

\* insert with the value assignment of the update branch left out.
insert_no_update(map, key, key_size, value, slack) ==
    IF map.size = map.capacity
        THEN [map |-> map, kind |-> "full", ret |-> NULL, examined |-> 0,
              index |-> -1, allocated |-> 0]
    ELSE LET p == insert_loop(map, key, key_size,
                              HashMod(hash_function(key, key_size), map.capacity), 0)
         IN  CASE p.kind = "match" ->
                    [map |-> map,
                     kind |-> "updated", ret |-> NULL, examined |-> p.examined,
                     index |-> p.index, allocated |-> 0]
               [] p.kind = "empty" ->
                    [map |-> [map EXCEPT
                                !.table[p.index] =
                                    Entry(KeyBlock(key, key_size, slack), key_size, value),
                                !.size = map.size + 1],
                     kind |-> "inserted", ret |-> NULL, examined |-> p.examined,
                     index |-> p.index, allocated |-> 1]
               [] OTHER ->
                    [map |-> map, kind |-> "hung", ret |-> NULL,
                     examined |-> p.examined, index |-> p.index, allocated |-> 0]

\* insert with size incremented on the update branch too.
insert_size_on_update(map, key, key_size, value, slack) ==
    IF map.size = map.capacity
        THEN [map |-> map, kind |-> "full", ret |-> NULL, examined |-> 0,
              index |-> -1, allocated |-> 0]
    ELSE LET p == insert_loop(map, key, key_size,
                              HashMod(hash_function(key, key_size), map.capacity), 0)
         IN  CASE p.kind = "match" ->
                    [map |-> [map EXCEPT !.table[p.index].value = value,
                                         !.size = map.size + 1],
                     kind |-> "updated", ret |-> NULL, examined |-> p.examined,
                     index |-> p.index, allocated |-> 0]
               [] p.kind = "empty" ->
                    [map |-> [map EXCEPT
                                !.table[p.index] =
                                    Entry(KeyBlock(key, key_size, slack), key_size, value),
                                !.size = map.size + 1],
                     kind |-> "inserted", ret |-> NULL, examined |-> p.examined,
                     index |-> p.index, allocated |-> 1]
               [] OTHER ->
                    [map |-> map, kind |-> "hung", ret |-> NULL,
                     examined |-> p.examined, index |-> p.index, allocated |-> 0]

\* insert with the full-table test moved behind the search for the key: a
\* stored key is updated on a full table too.
insert_update_when_full(map, key, key_size, value, slack) ==
    LET p == insert_loop(map, key, key_size,
                         HashMod(hash_function(key, key_size), map.capacity), 0)
    IN  CASE p.kind = "match" ->
               [map |-> [map EXCEPT !.table[p.index].value = value],
                kind |-> "updated", ret |-> NULL, examined |-> p.examined,
                index |-> p.index, allocated |-> 0]
          [] p.kind = "empty" ->
               [map |-> [map EXCEPT
                           !.table[p.index] =
                               Entry(KeyBlock(key, key_size, slack), key_size, value),
                           !.size = map.size + 1],
                kind |-> "inserted", ret |-> NULL, examined |-> p.examined,
                index |-> p.index, allocated |-> 1]
          [] OTHER ->
               [map |-> map, kind |-> "full", ret |-> NULL, examined |-> p.examined,
                index |-> -1, allocated |-> 0]

\* The loop of insert with the key comparison left out: it stops at the
\* first empty slot only.
RECURSIVE insert_loop_first_empty(_, _, _, _, _)
insert_loop_first_empty(map, key, key_size, index, n) ==
    IF map.table[index].key = NULLKEY
        THEN [kind |-> "empty", index |-> index, examined |-> n + 1]
    ELSE IF n + 1 >= map.capacity
        THEN [kind |-> "loop", index |-> index, examined |-> n + 1]
    ELSE insert_loop_first_empty(map, key, key_size, (index + 1) % map.capacity, n + 1)

\* insert that never looks for the key: it always fills the first empty slot.
insert_first_empty(map, key, key_size, value, slack) ==
    IF map.size = map.capacity
        THEN [map |-> map, kind |-> "full", ret |-> NULL, examined |-> 0,
              index |-> -1, allocated |-> 0]
    ELSE LET p == insert_loop_first_empty(map, key, key_size,
                              HashMod(hash_function(key, key_size), map.capacity), 0)
         IN  CASE p.kind = "empty" ->
                    [map |-> [map EXCEPT
                                !.table[p.index] =
                                    Entry(KeyBlock(key, key_size, slack), key_size, value),
                                !.size = map.size + 1],
                     kind |-> "inserted", ret |-> NULL, examined |-> p.examined,
                     index |-> p.index, allocated |-> 1]
               [] OTHER ->
                    [map |-> map, kind |-> "hung", ret |-> NULL,
                     examined |-> p.examined, index |-> p.index, allocated |-> 0]

\* insert with the size increment left out.
insert_no_size(map, key, key_size, value, slack) ==
    IF map.size = map.capacity
        THEN [map |-> map, kind |-> "full", ret |-> NULL, examined |-> 0,
              index |-> -1, allocated |-> 0]
    ELSE LET p == insert_loop(map, key, key_size,
                              HashMod(hash_function(key, key_size), map.capacity), 0)
         IN  CASE p.kind = "match" ->
                    [map |-> [map EXCEPT !.table[p.index].value = value],
                     kind |-> "updated", ret |-> NULL, examined |-> p.examined,
                     index |-> p.index, allocated |-> 0]
               [] p.kind = "empty" ->
                    [map |-> [map EXCEPT
                                !.table[p.index] =
                                    Entry(KeyBlock(key, key_size, slack), key_size, value)],
                     kind |-> "inserted", ret |-> NULL, examined |-> p.examined,
                     index |-> p.index, allocated |-> 1]
               [] OTHER ->
                    [map |-> map, kind |-> "hung", ret |-> NULL,
                     examined |-> p.examined, index |-> p.index, allocated |-> 0]

\* insert(map, key, key_size, value); slack is what malloc(key_size) leaves
\* behind the copied key.  Result: the map afterwards, what happened, the
\* slots examined, the slot written and the key blocks allocated.
insert(map, key, key_size, value, slack) ==
    IF map.size = map.capacity
        THEN [map |-> map, kind |-> "full", ret |-> NULL, examined |-> 0,
              index |-> -1, allocated |-> 0]
    ELSE LET p == insert_loop(map, key, key_size,
                              HashMod(hash_function(key, key_size), map.capacity), 0)
         IN  CASE p.kind = "match" ->
                    [map |-> [map EXCEPT !.table[p.index].value = value],
                     kind |-> "updated", ret |-> NULL, examined |-> p.examined,
                     index |-> p.index, allocated |-> 0]
               [] p.kind = "empty" ->
                    [map |-> [map EXCEPT
                                !.table[p.index] =
                                    Entry(KeyBlock(key, key_size, slack), key_size, value),
                                !.size = map.size + 1],
                     kind |-> "inserted", ret |-> NULL, examined |-> p.examined,
                     index |-> p.index, allocated |-> 1]
               [] OTHER ->
                    [map |-> map, kind |-> "hung", ret |-> NULL,
                     examined |-> p.examined, index |-> p.index, allocated |-> 0]

\* The while loop of find.
RECURSIVE find_loop(_, _, _, _, _)
find_loop(map, key, key_size, index, n) ==
    IF map.table[index].key = NULLKEY
        THEN [kind |-> "empty", index |-> index, examined |-> n + 1]
    ELSE IF equals(map.table[index].key, key, key_size)
        THEN [kind |-> "match", index |-> index, examined |-> n + 1]
    ELSE IF n + 1 >= map.capacity
        THEN [kind |-> "loop", index |-> index, examined |-> n + 1]
    ELSE find_loop(map, key, key_size, (index + 1) % map.capacity, n + 1)

\* find(map, key, key_size): ret is the value pointer returned (NULL when an
\* empty slot ends the probe); "hung" when the loop never exits.
find(map, key, key_size) ==
    LET p == find_loop(map, key, key_size,
                       HashMod(hash_function(key, key_size), map.capacity), 0)
    IN  CASE p.kind = "match" ->
               [map |-> map, kind |-> "found", ret |-> map.table[p.index].value,
                examined |-> p.examined, index |-> p.index, allocated |-> 0]
          [] p.kind = "empty" ->
               [map |-> map, kind |-> "missing", ret |-> NULL,
                examined |-> p.examined, index |-> p.index, allocated |-> 0]
          [] OTHER ->
               [map |-> map, kind |-> "hung", ret |-> NULL,
                examined |-> p.examined, index |-> p.index, allocated |-> 0]

\* The while loop of delete_entry.
RECURSIVE delete_loop(_, _, _, _, _)
delete_loop(map, key, key_size, index, n) ==
    IF map.table[index].key = NULLKEY
        THEN [kind |-> "empty", index |-> index, examined |-> n + 1]
    ELSE IF equals(map.table[index].key, key, key_size)
        THEN [kind |-> "match", index |-> index, examined |-> n + 1]
    ELSE IF n + 1 >= map.capacity
        THEN [kind |-> "loop", index |-> index, examined |-> n + 1]
    ELSE delete_loop(map, key, key_size, (index + 1) % map.capacity, n + 1)

\* delete_entry with the key pointer left as it is after free.
delete_keep_key(map, key, key_size) ==
    LET p == delete_loop(map, key, key_size,
                         HashMod(hash_function(key, key_size), map.capacity), 0)
    IN  CASE p.kind = "match" ->
               [map |-> [map EXCEPT !.size = map.size - 1],
                kind |-> "deleted", ret |-> NULL, examined |-> p.examined,
                index |-> p.index, allocated |-> -1]
          [] p.kind = "empty" ->
               [map |-> map, kind |-> "missing", ret |-> NULL,
                examined |-> p.examined, index |-> p.index, allocated |-> 0]
          [] OTHER ->
               [map |-> map, kind |-> "hung", ret |-> NULL,
                examined |-> p.examined, index |-> p.index, allocated |-> 0]

\* delete_entry with size decremented on the "Key not found" path too.
delete_size_on_missing(map, key, key_size) ==
    LET p == delete_loop(map, key, key_size,
                         HashMod(hash_function(key, key_size), map.capacity), 0)
    IN  CASE p.kind = "match" ->
               [map |-> [map EXCEPT !.table[p.index].key = NULLKEY,
                                    !.size = map.size - 1],
                kind |-> "deleted", ret |-> NULL, examined |-> p.examined,
                index |-> p.index, allocated |-> -1]
          [] p.kind = "empty" ->
               [map |-> [map EXCEPT !.size = map.size - 1],
                kind |-> "missing", ret |-> NULL,
                examined |-> p.examined, index |-> p.index, allocated |-> 0]
          [] OTHER ->
               [map |-> map, kind |-> "hung", ret |-> NULL,
                examined |-> p.examined, index |-> p.index, allocated |-> 0]

\* delete_entry with the size decrement left out.
delete_no_size(map, key, key_size) ==
    LET p == delete_loop(map, key, key_size,
                         HashMod(hash_function(key, key_size), map.capacity), 0)
    IN  CASE p.kind = "match" ->
               [map |-> [map EXCEPT !.table[p.index].key = NULLKEY],
                kind |-> "deleted", ret |-> NULL, examined |-> p.examined,
                index |-> p.index, allocated |-> -1]
          [] p.kind = "empty" ->
               [map |-> map, kind |-> "missing", ret |-> NULL,
                examined |-> p.examined, index |-> p.index, allocated |-> 0]
          [] OTHER ->
               [map |-> map, kind |-> "hung", ret |-> NULL,
                examined |-> p.examined, index |-> p.index, allocated |-> 0]

\* delete_entry(map, key, key_size): on a match the key block is freed, the
\* key pointer set to NULL (key_size and value stay as they were) and size
\* decremented; "missing" is the "[ERROR] Key not found" return.
delete_entry(map, key, key_size) ==
    LET p == delete_loop(map, key, key_size,
                         HashMod(hash_function(key, key_size), map.capacity), 0)
    IN  CASE p.kind = "match" ->
               [map |-> [map EXCEPT !.table[p.index].key = NULLKEY,
                                    !.size = map.size - 1],
                kind |-> "deleted", ret |-> NULL, examined |-> p.examined,
                index |-> p.index, allocated |-> -1]
          [] p.kind = "empty" ->
               [map |-> map, kind |-> "missing", ret |-> NULL,
                examined |-> p.examined, index |-> p.index, allocated |-> 0]
          [] OTHER ->
               [map |-> map, kind |-> "hung", ret |-> NULL,
                examined |-> p.examined, index |-> p.index, allocated |-> 0]

\* hashmap_cleanup: free(map->table) and nothing else; the key blocks the
\* occupied slots point to stay allocated.
hashmap_cleanup(h) == [h EXCEPT !.table = FALSE]

\* ------------------------------------------------------------------ the program

VARIABLES
    map,    \* the HashMap: capacity, size, table
    heap,   \* what malloc has handed out: the table, and how many key blocks
    pc,     \* "ready", "hung" (inside a loop that never exits), "cleaned"
    last    \* the last call: op, key, value, what it did, and whether it is an
            \* insert directly after an insert of the same key with another value

vars == <<map, heap, pc, last>>

Call(op, key, value, r) ==
    [op |-> op, key |-> key, value |-> value, kind |-> r.kind, ret |-> r.ret,
     examined |-> r.examined, index |-> r.index,
     again |-> (op = "insert" /\ last.op = "insert" /\ last.key = key
                /\ last.value # value)]

Init ==
    \E capacity \in 1..MaxCap :
        /\ map = hashmap_init(capacity)
        /\ heap = [table |-> TRUE, keys |-> 0]
        /\ pc = "ready"
        /\ last = [op |-> "init", key |-> NULLKEY, value |-> NULL, kind |-> "init",
                   ret |-> NULL, examined |-> 0, index |-> -1, again |-> FALSE]

Apply(op, key, value, r) ==
    /\ map' = r.map
    /\ heap' = [heap EXCEPT !.keys = heap.keys + r.allocated]
    /\ pc' = IF r.kind = "hung" THEN "hung" ELSE "ready"
    /\ last' = Call(op, key, value, r)

Insert ==
    /\ pc = "ready"
    /\ \E key \in KeySet, value \in Values :
         \E slack \in SlackOf(Len(key)) :
            Apply("insert", key, value, insert(map, key, Len(key), value, slack))

Find ==
    /\ pc = "ready"
    /\ \E key \in KeySet :
            Apply("find", key, NULL, find(map, key, Len(key)))

Delete ==
    /\ pc = "ready"
    /\ \E key \in KeySet :
            Apply("delete", key, NULL, delete_entry(map, key, Len(key)))

Cleanup ==
    /\ pc = "ready"
    /\ heap' = hashmap_cleanup(heap)
    /\ pc' = "cleaned"
    /\ last' = [op |-> "cleanup", key |-> NULLKEY, value |-> NULL, kind |-> "cleaned",
                ret |-> NULL, examined |-> 0, index |-> -1, again |-> FALSE]
    /\ UNCHANGED map

Next == Insert \/ Find \/ Delete \/ Cleanup

Spec == Init /\ [][Next]_vars

\* ------------------------------------------------------------------ properties

\* The slots whose key pointer is not NULL.
Occupied(m) == {i \in 0..(m.capacity - 1) : m.table[i].key # NULLKEY}

\* Slot i of m holds exactly the key `key`: same length, same bytes.
Holds(m, i, key) ==
    /\ m.table[i].key # NULLKEY
    /\ m.table[i].key_size = Len(key)
    /\ key_equals(m.table[i].key, key, Len(key))

\* What find(key) answers on m.
Lookup(m, key) == find(m, key, Len(key))

\* C1 (as claimed): delete(k) does not change what find(k') answers for any
\* other key k': a key found before the delete is found, with the same value,
\* after it.  Stated for a delete that removes a slot storing k itself and
\* for keys k' that are stored and found under their own bytes and length,
\* which the claim covers.
C1_DeleteKeepsOtherKeys ==
    [][(last'.op = "delete" /\ last'.kind = "deleted"
            /\ Holds(map, last'.index, last'.key)) =>
         \A k \in KeySet \ {last'.key} :
             (/\ Lookup(map, k).kind = "found"
              /\ Holds(map, Lookup(map, k).index, k)) =>
                 /\ Lookup(map', k).kind = "found"
                 /\ Lookup(map', k).ret = Lookup(map, k).ret]_vars

\* C2 (as claimed): in every reachable state, insert(k, v) followed
\* immediately by find(k) returns v.
C2_RoundTripAlways ==
    last.op = "insert" =>
        /\ Lookup(map, last.key).kind = "found"
        /\ Lookup(map, last.key).ret = last.value

\* C2 (amended): when size < capacity before the call, so that insert is not
\* turned away with "HashMap is full", insert(k, v) followed immediately by
\* find(k) returns v.
C2_RoundTripWhenNotFull ==
    (last.op = "insert" /\ last.kind # "full") =>
        /\ Lookup(map, last.key).kind = "found"
        /\ Lookup(map, last.key).ret = last.value

\* C2 witness: an insert that walked past an occupied slot into an empty one,
\* and find returns its value.
C2_Witness ==
    /\ last.op = "insert"
    /\ last.kind = "inserted"
    /\ last.examined > 1
    /\ Lookup(map, last.key).ret = last.value

\* C3 (as claimed): for every capacity >= 1, insert(k, v1) followed by
\* insert(k, v2), v1 # v2, leaves size as it was after the first insert and a
\* following find(k) returns v2.
C3_UpdateAlways ==
    [][(last'.op = "insert" /\ last'.again) =>
         /\ map'.size = map.size
         /\ Lookup(map', last'.key).kind = "found"
         /\ Lookup(map', last'.key).ret = last'.value]_vars

\* C3 (amended): the same, provided the table is not full after the first
\* insert (size < capacity, which needs capacity >= 2 once a key is stored).
C3_UpdateWhenNotFull ==
    [][(last'.op = "insert" /\ last'.again /\ map.size < map.capacity) =>
         /\ map'.size = map.size
         /\ Lookup(map', last'.key).kind = "found"
         /\ Lookup(map', last'.key).ret = last'.value]_vars

\* C3 witness: the second of two inserts of one key with different values
\* has overwritten the value, and find returns the second value.
C3_Witness ==
    /\ last.op = "insert"
    /\ last.again
    /\ last.kind = "updated"
    /\ map.size < map.capacity
    /\ Lookup(map, last.key).ret = last.value

\* C4: whenever size = capacity, insert fails with the capacity error and
\* changes nothing (no slot, not size, no allocation), whether or not the key
\* is already stored.
C4_FullInsertChangesNothing ==
    [][(last'.op = "insert" /\ map.size = map.capacity) =>
         /\ last'.kind = "full"
         /\ map' = map
         /\ heap' = heap]_vars

\* C4 witness: an insert was turned away on a full table of at least two
\* slots although its key is stored there, with another value.
C4_Witness ==
    /\ last.op = "insert"
    /\ last.kind = "full"
    /\ map.capacity >= 2
    /\ \E i \in Occupied(map) :
          Holds(map, i, last.key) /\ map.table[i].value # last.value

\* C5: when find(k) returns a value, delete(k) followed immediately by
\* find(k) reports not found, also when several slots hold k.
C5_DeleteThenFindIsNull ==
    [][(last'.op = "delete" /\ Lookup(map, last'.key).kind = "found") =>
         /\ last'.kind = "deleted"
         /\ Lookup(map', last'.key).kind = "missing"
         /\ Lookup(map', last'.key).ret = NULL]_vars

\* C5 witness: a delete removed one of two slots holding the key; the other
\* copy is still stored and find reports not found.
C5_Witness ==
    /\ last.op = "delete"
    /\ last.kind = "deleted"
    /\ map.table[last.index].key_size = Len(last.key)
    /\ \E i \in Occupied(map) : Holds(map, i, last.key)
    /\ Lookup(map, last.key).kind = "missing"

\* C6: find never changes the table, and delete(k) for a key that find
\* reports as not found prints "Key not found" and leaves every slot and size
\* unchanged.
C6_FindAndFailedDeleteChangeNothing ==
    [][/\ last'.op = "find" => (map' = map /\ heap' = heap)
       /\ (last'.op = "delete" /\ Lookup(map, last'.key).kind = "missing") =>
             (last'.kind = "missing" /\ map' = map /\ heap' = heap)]_vars

\* C6 witness: a delete of a key whose home slot is empty, on a table that
\* holds other keys, reported not found.
C6_Witness ==
    /\ last.op = "delete"
    /\ last.kind = "missing"
    /\ last.examined = 1
    /\ map.size >= 1
    /\ \A i \in Occupied(map) : ~Holds(map, i, last.key)

\* C7 (as claimed): find and delete terminate for every key after examining
\* at most capacity slots, on a full table too.
C7_FindDeleteTerminate ==
    last.op \in {"find", "delete"} =>
        (last.kind # "hung" /\ pc # "hung" /\ last.examined <= map.capacity)

\* C8: size is the number of occupied slots and 0 <= size <= capacity.
C8_SizeCountsOccupied ==
    /\ map.size = Cardinality(Occupied(map))
    /\ 0 <= map.size
    /\ map.size <= map.capacity

\* C8 witness: after a delete, on a table that still holds two keys.
C8_Witness ==
    /\ last.op = "delete"
    /\ last.kind = "deleted"
    /\ map.size = 2
    /\ Cardinality(Occupied(map)) = 2

\* C9 (as claimed): find(k) returns only the value of a slot whose stored key
\* has the length and the bytes of k.  Stated for the comparisons that read
\* no further than the stored key reaches (stored length >= length of k),
\* which the claim covers: its example is a stored key of which k is a
\* proper prefix.
C9_EqualityByTrueContent ==
    (/\ last.op = "find"
     /\ last.kind = "found"
     /\ map.table[last.index].key_size >= Len(last.key)) =>
        Holds(map, last.index, last.key)

\* C10 (as claimed): after cleanup no key block allocated by insert is still
\* allocated.
C10_CleanupFreesKeys ==
    pc = "cleaned" => (heap.table = FALSE /\ heap.keys = 0)

\* ------------------------------------------------------------------ probing

\* The slot examined j steps into the probe sequence of key:
\* (hash(key) % capacity + j) % capacity.
ProbeSlot(m, key, j) ==
    (HashMod(hash_function(key, Len(key)), m.capacity) + j) % m.capacity

\* Some slot has been emptied by delete_entry (its key_size field is written).
HasHole(m) ==
    \E i \in 0..(m.capacity - 1) :
        m.table[i].key = NULLKEY /\ m.table[i].key_size # UNINIT

\* Two different slots store the same key.
HasDuplicate(m) ==
    \E i, j \in Occupied(m) :
        /\ i # j
        /\ m.table[i].key_size = m.table[j].key_size
        /\ key_equals(m.table[i].key, m.table[j].key, m.table[i].key_size)

\* C11: in every reachable state with size < capacity, holes and duplicate
\* copies included, insert(k, v) followed immediately by find(k) returns v,
\* read from the slot insert wrote.
C11_InsertThenFindBelowCapacity ==
    [][(last'.op = "insert" /\ map.size < map.capacity) =>
         /\ last'.kind \in {"inserted", "updated"}
         /\ Lookup(map', last'.key).kind = "found"
         /\ Lookup(map', last'.key).index = last'.index
         /\ Lookup(map', last'.key).ret = last'.value]_vars

\* C11 witness: an insert into a table that has a hole left by a delete and
\* holds two copies of the inserted key; find returns the inserted value.
C11_Witness ==
    /\ last.op = "insert"
    /\ last.kind \in {"inserted", "updated"}
    /\ HasHole(map)
    /\ \E i, j \in Occupied(map) :
          i # j /\ Holds(map, i, last.key) /\ Holds(map, j, last.key)
    /\ Lookup(map, last.key).ret = last.value

\* C12: with size < capacity an empty slot lies on the probe sequence of
\* every key, and insert terminates after examining at most capacity slots.
C12_InsertTerminates ==
    /\ map.size < map.capacity =>
          \A k \in KeySet :
              \E j \in 0..(map.capacity - 1) :
                  map.table[ProbeSlot(map, k, j)].key = NULLKEY
    /\ last.op = "insert" =>
          /\ last.kind # "hung"
          /\ last.examined <= map.capacity
          /\ last.kind \in {"inserted", "updated"} => last.examined >= 1

\* C12 witness: an insert that examined every slot of a table of at least
\* two slots before it reached the only empty one.
C12_Witness ==
    /\ last.op = "insert"
    /\ last.kind = "inserted"
    /\ map.capacity >= 2
    /\ last.examined = map.capacity
    /\ map.size = map.capacity

\* The number of probe steps from the home slot of `key` to the first empty
\* slot of m (m has an empty slot).
FirstEmptyStep(m, key) ==
    CHOOSE j \in 0..(m.capacity - 1) :
        /\ m.table[ProbeSlot(m, key, j)].key = NULLKEY
        /\ \A h \in 0..(j - 1) : m.table[ProbeSlot(m, key, h)].key # NULLKEY

\* The probe steps below j at which the slot stores exactly `key`.
HoldsBefore(m, key, j) ==
    {h \in 0..(j - 1) : Holds(m, ProbeSlot(m, key, h), key)}

\* The least element of a non-empty set of probe steps.
FirstStep(S) == CHOOSE h \in S : \A g \in S : h <= g

\* No stored key is shorter than `key`: comparing over Len(key) bytes stays
\* inside every stored block.
NoOverRead(m, key) == \A i \in Occupied(m) : m.table[i].key_size >= Len(key)

\* C13 (as claimed): with size < capacity and no slot storing k before the
\* first empty slot of k's probe sequence, insert(k, v) stores k, its length
\* and v in exactly that empty slot, adds 1 to size, and leaves every other
\* slot unchanged.  Stated for tables whose stored keys are at least as long
\* as k, where the comparison reads no byte outside a stored block.
C13_InsertFillsFirstEmpty ==
    [][(/\ last'.op = "insert"
        /\ map.size < map.capacity
        /\ NoOverRead(map, last'.key)
        /\ HoldsBefore(map, last'.key, FirstEmptyStep(map, last'.key)) = {}) =>
         LET e == ProbeSlot(map, last'.key, FirstEmptyStep(map, last'.key)) IN
             /\ Holds(map', e, last'.key)
             /\ map'.table[e].value = last'.value
             /\ map'.size = map.size + 1
             /\ \A i \in 0..(map.capacity - 1) \ {e} :
                    map'.table[i] = map.table[i]]_vars

\* C14 (as claimed): with size < capacity and a slot storing k before any
\* empty slot of k's probe sequence, insert(k, v) replaces the value of the
\* first such slot and nothing else.  Stated, as C13, for tables whose stored
\* keys are at least as long as k.
C14_InsertUpdatesFirstMatch ==
    [][(/\ last'.op = "insert"
        /\ map.size < map.capacity
        /\ NoOverRead(map, last'.key)
        /\ HoldsBefore(map, last'.key, FirstEmptyStep(map, last'.key)) # {}) =>
         LET f == ProbeSlot(map, last'.key,
                      FirstStep(HoldsBefore(map, last'.key,
                                    FirstEmptyStep(map, last'.key)))) IN
             map' = [map EXCEPT !.table[f].value = last'.value]]_vars

\* C15 (as claimed): a delete(k) that reports success empties exactly the
\* first slot storing k on k's probe sequence, frees that slot's key block,
\* subtracts 1 from size, and leaves every other slot unchanged.  Stated, as
\* C13, for tables whose stored keys are at least as long as k.
C15_DeleteEmptiesFirstMatch ==
    [][(/\ last'.op = "delete"
        /\ last'.kind = "deleted"
        /\ NoOverRead(map, last'.key)) =>
         /\ HoldsBefore(map, last'.key, map.capacity) # {}
         /\ LET f == ProbeSlot(map, last'.key,
                         FirstStep(HoldsBefore(map, last'.key, map.capacity))) IN
                /\ map' = [map EXCEPT !.table[f].key = NULLKEY,
                                      !.size = map.size - 1]
                /\ heap'.keys = heap.keys - 1]_vars

\* All stored keys have the least length of KeySet: the keys of one length
\* for which no comparison has to leave a stored block.
ShortestKeys(m) ==
    \A i \in Occupied(m) : \A k \in KeySet : m.table[i].key_size <= Len(k)

\* C16 (as claimed): in every state reached by inserts and deletes no two
\* occupied slots store the same key.  Stated for tables whose keys all have
\* the least length of KeySet.
C16_NoDuplicateKeys == ShortestKeys(map) => ~HasDuplicate(map)

\* C17 (as claimed): once delete(k) has removed k, find(k) reports not found
\* after later operations that are not insert(k).  Stated for one later
\* operation and for tables whose keys all have that least length: right after a
\* delete that removed a slot storing k, no insert or delete of another key,
\* and no find, leaves the map in a state where find(k) answers with a slot
\* storing k.
C17_DeletedKeyStaysAbsent ==
    [][(/\ last.op = "delete"
        /\ last.kind = "deleted"
        /\ map.table[last.index].key_size = Len(last.key)
        /\ ShortestKeys(map')
        /\ ~(last'.op = "insert" /\ last'.key = last.key)) =>
         ~(/\ Lookup(map', last.key).kind = "found"
           /\ Holds(map', Lookup(map', last.key).index, last.key))]_vars

\* ------------------------------------------------------------------ hashing

\* The longest byte sequence hashed, and the bytes it is made of.
MaxHashLen == 3
HashBytes == {0, 1, 2, 127, 128, 255}

\* 16777619u, the multiplier of fnv1a, as one number.
FNV_PRIME == 16777619

\* A call hash_key(key, Len(key)) and the start index insert, find and
\* delete_entry derive from it.
HashCall(key, byte, capacity) ==
    LET h == hash_key(key, Len(key)) IN
        [op |-> "hash", key |-> key, value |-> byte, kind |-> "hash", ret |-> h,
         examined |-> Len(key), index |-> HashMod(h, capacity), again |-> FALSE]

InitHash ==
    \E capacity \in 1..MaxCap :
        /\ map = hashmap_init(capacity)
        /\ heap = [table |-> TRUE, keys |-> 0]
        /\ pc = "ready"
        /\ last = HashCall(<<>>, NULL, capacity)

\* hash_key on the last key with one more byte.
HashByte ==
    /\ Len(last.key) < MaxHashLen
    /\ \E byte \in HashBytes :
          last' = HashCall(Append(last.key, byte), byte, map.capacity)
    /\ UNCHANGED <<map, heap, pc>>

NextHash == HashByte

SpecHash == InitHash /\ [][NextHash]_vars

\* A 32-bit word as its bits, least significant first.
WordBits(h) ==
    [i \in 0..31 |-> IF i < 16 THEN (h.lo \div Pow2(i)) % 2
                               ELSE (h.hi \div Pow2(i - 16)) % 2]

ByteBits(byte) ==
    [i \in 0..31 |-> IF i < 8 THEN (byte \div Pow2(i)) % 2 ELSE 0]

\* x XOR y, bit by bit.
RefXor(x, y) == [i \in 0..31 |-> (x[i] + y[i]) % 2]

\* The positions of the 1 bits of 16777619.
PrimeShifts == {s \in 0..30 : (FNV_PRIME \div Pow2(s)) % 2 = 1}

\* Column i of the long multiplication x * 16777619: the bits of x that the
\* shifted copies of x put there.
ColumnSum(x, i) == Cardinality({s \in PrimeShifts : s <= i /\ x[i - s] = 1})

\* The carry into column i.
RECURSIVE CarryIn(_, _)
CarryIn(x, i) ==
    IF i = 0 THEN 0 ELSE (ColumnSum(x, i - 1) + CarryIn(x, i - 1)) \div 2

\* (x * 16777619) mod 2^32: the low 32 columns of the long multiplication.
RefMul(x) == [i \in 0..31 |-> (ColumnSum(x, i) + CarryIn(x, i)) % 2]

\* A 32-bit word in decimal: <<millions, the six digits below>>.
Decimal(h) ==
    LET thousands == h.hi * 65
        units     == (h.hi * 536) + h.lo
        low       == ((thousands % 1000) * 1000) + units
    IN  <<(thousands \div 1000) + (low \div 1000000), low % 1000000>>

\* C18: hash is 32-bit FNV-1a.  The hash of the empty sequence is 2166136261;
\* the hash of s followed by b is ((hash(s) XOR b) * 16777619) mod 2^32; the
\* same bytes give the same hash; and hash mod capacity lies in
\* 0..capacity-1.
C18_HashIsFnv1a ==
    last.op = "hash" =>
        /\ last.ret.hi \in 0..(Half - 1) /\ last.ret.lo \in 0..(Half - 1)
        /\ last.ret = hash_function(last.key, Len(last.key))
        /\ Len(last.key) = 0 => Decimal(last.ret) = <<2166, 136261>>
        /\ Len(last.key) > 0 =>
              LET s == SubSeq(last.key, 1, Len(last.key) - 1)
                  b == last.key[Len(last.key)]
              IN  WordBits(last.ret) =
                      RefMul(RefXor(WordBits(hash_key(s, Len(s))), ByteBits(b)))
        /\ last.index = ProbeSlot(map, last.key, 0)
        /\ last.index \in 0..(map.capacity - 1)

\* C18 witness: a sequence of MaxHashLen bytes ending in 255 whose hash has
\* its top bit set, reduced to the last slot of a table of several slots.
C18_Witness ==
    /\ last.op = "hash"
    /\ Len(last.key) = MaxHashLen
    /\ last.value = 255
    /\ last.ret.hi >= Half \div 2
    /\ map.capacity > 1
    /\ last.index = map.capacity - 1

====
